---------------------------- MODULE Spec2Model ----------------------------
(***************************************************************************)
(* Soffer: an escrow-backed offer/swap engine (src/src/lib.rs).            *)
(*                                                                         *)
(* The four handlers of Processor are modelled as operators from a ledger  *)
(* state and a request to a result code and the ledger the handler leaves. *)
(* The host ledger is modelled by its contract: an operation that returns  *)
(* an error leaves none of its writes behind (the handlers rely on this    *)
(* between the two legs of a settlement); the expiry write of              *)
(* process_accept_offer, made before it returns OfferExpired, is dropped   *)
(* with the rest.                                                          *)
(*                                                                         *)
(* The handlers sign for an offer account with the five seeds they hand to *)
(* find_program_address, leaving out the bump it finds, while the offer    *)
(* account is the address of six seeds.  The host derives the signing     *)
(* address from the seeds as given, which is never the offer account, so   *)
(* it refuses every allocation the handlers ask for.  Every account's data *)
(* length is kept in space, since the system program moves lamports only   *)
(* out of accounts without data and borsh loads a record only from a       *)
(* buffer the record fills.  The answer of the last operation is kept in   *)
(* last.                                                                   *)
(*                                                                         *)
(* Requests are drawn with every account writable and with the genuine     *)
(* system and token program accounts.                                      *)
(*                                                                         *)
(* Public keys are integers: parties 1..3, token mints 11 and 12, the      *)
(* all-zero key 0, token accounts 100*owner + mint, offer addresses from   *)
(* 100000 up, addresses of five seeds below -1000.                         *)
(***************************************************************************)
EXTENDS Integers, FiniteSets, Sequences, TLC

VARIABLES offers, lamports, tokens, space, now, last

vars == <<offers, lamports, tokens, space, now, last>>

---------------------------------------------------------------------------
(* Bounds of the model. *)

\* Offer records that CreateOffer may make.
MaxCreates == 1
\* Offer records that may exist at once.
MaxOffers == 2
\* The clock stops here.
MaxTime == 2

---------------------------------------------------------------------------
(* Keys and domains. *)

\* Option::None, for Option<Pubkey> and Option<i64>.
None == -1
\* Pubkey::new_from_array([0; 32]): the key that stands for native currency.
SOL == 0
\* rent.minimum_balance(Offer::MAX_LEN): what an offer account is funded with.
RentLamports == 2

Parties == {1, 2, 3}
TokenMints == {11, 12}
MintKeys == {SOL} \cup TokenMints
Salts == {254, 255}
OfferTypes == {"Direct", "PublicBuy", "PublicSell"}
OfferStatuses == {"Active", "Accepted", "Declined", "Countered", "Expired"}

TokAcct(p, m) == 100 * p + m
TokenAccts == {TokAcct(p, m) : p \in Parties, m \in TokenMints}
TokOwner(t) == t \div 100
TokMint(t) == t % 100

\* TokenAccount::unpack / Mint::unpack succeed on accounts of that kind only.
IsTokenAccount(k) == k \in TokenAccts
IsMint(k) == k \in TokenMints

---------------------------------------------------------------------------
(* Program-derived addresses.  create_program_address hashes the seeds and *)
(* the bump and fails when the digest is a curve point; the digest is      *)
(* modelled by an injective encoding of its input and the curve points by  *)
(* a fixed set of digests.                                                 *)

PdaKey(m, om, rm, s, b) ==
    100000 + ((((m * 16 + om) * 16 + rm) * 256 + s) * 256 + b)

\* The digests that are curve points: with them, of the seed tuples of
\* party 1, (11, 12) has the two valid salts 254 and 255 and (12, 11) only
\* 254; of party 2, (11, 12) has none; every other tuple has only 255.
OnCurve ==
    {PdaKey(1, 11, 12, 254, 255), PdaKey(1, 12, 11, 254, 255),
     PdaKey(1, 12, 11, 255, 255), PdaKey(2, 11, 12, 255, 255),
     PdaKey(2, 11, 12, 254, 255), PdaKey(2, 11, 12, 254, 254)}

OffCurve(m, om, rm, s, b) == PdaKey(m, om, rm, s, b) \notin OnCurve

\* The first bump from b down whose address is off the curve.
RECURSIVE FirstOffCurve(_, _, _, _, _)
FirstOffCurve(m, om, rm, s, b) ==
    IF OffCurve(m, om, rm, s, b) THEN b
    ELSE FirstOffCurve(m, om, rm, s, b - 1)

\* Pubkey::find_program_address(&[b"offer", maker, offer_mint, receive_mint,
\* &[bump_seed]], program_id): the bump found from 255 down and its address.
find_program_address(m, om, rm, s) ==
    LET b == FirstOffCurve(m, om, rm, s, 255)
    IN [key |-> PdaKey(m, om, rm, s, b), bump |-> b]

\* The signer seeds of the handlers: b"offer", the maker, the two mints and
\* the bump byte of the request or record, without the bump found for them.
NoSeeds == << >>
OfferSeeds(m, om, rm, s) == <<m, om, rm, s>>

\* The digest of five seeds, apart from every digest of six.
SeedsKey(seeds) ==
    0 - (1000 + (((seeds[1] * 16 + seeds[2]) * 16 + seeds[3]) * 256
                 + seeds[4]))

\* The five-seed digests that are curve points.
SeedsOnCurve ==
    {SeedsKey(OfferSeeds(m, 11, rm, 255)) : m \in {1, 2, 3}, rm \in {0, 12}}
        \cup {SeedsKey(OfferSeeds(m, 12, 11, 254)) : m \in {1, 2, 3}}

---------------------------------------------------------------------------
(* The stored record. *)

\* Offer::MAX_LEN: the size every offer account is allocated with.
MAX_LEN == 1 + 1 + 32 + 33 + 32 + 8 + 32 + 8 + 8 + 9 + 1 + 33 + 1

\* The bytes borsh writes for a record: an Option takes one byte when None
\* and one more than its value when Some.
borsh_len(o) ==
    1 + 1 + 32 + (IF o.taker = None THEN 1 ELSE 33) + 32 + 8 + 32 + 8 + 8
      + (IF o.expiration = None THEN 1 ELSE 9) + 1
      + (IF o.original_offer_id = None THEN 1 ELSE 33) + 1

\* account.data_len(): the bytes of data an account carries.
data_len(st, key) == IF key \in DOMAIN st.space THEN st.space[key] ELSE 0

\* Offer::try_from_slice(&account.data): borsh reads the record from the
\* front of the buffer and fails when bytes of the buffer are left over.
try_from_slice(st, key) == borsh_len(st.offers[key]) = data_len(st, key)

---------------------------------------------------------------------------
(* Results and the external transfer primitives. *)

Ok(st) == [res |-> "Ok", st |-> st]
Err(e, st) == [res |-> e, st |-> st]

\* invoke_signed for an instruction that needs the signature of account:
\* the host derives the signing address from the signer seeds, which fails
\* on a curve point, and takes an account for signed when it is that
\* address.
signed_by_seeds(st, seeds, account) ==
    IF SeedsKey(seeds) \in SeedsOnCurve THEN "BadSeeds"
    ELSE IF SeedsKey(seeds) = account THEN "Ok"
    ELSE "PrivilegeEscalation"

\* The system program's transfer: lamports leave accounts without data only.
system_transfer(st, from, to, amount) ==
    IF data_len(st, from) > 0 THEN Err("InvalidArgument", st)
    ELSE Ok([st EXCEPT !.lamports =
                [@ EXCEPT ![from] = @ - amount, ![to] = @ + amount]])

\* Processor::transfer_sol: the balance check, then the system program's
\* transfer by invoke_signed when seeds are given and by invoke otherwise.
transfer_sol(st, from, to, amount, seeds) ==
    IF st.lamports[from] < amount THEN Err("InsufficientFunds", st)
    ELSE IF seeds # NoSeeds /\ signed_by_seeds(st, seeds, from) # "Ok"
    THEN Err(signed_by_seeds(st, seeds, from), st)
    ELSE system_transfer(st, from, to, amount)

\* The token program's TransferChecked, in the order of its checks.
spl_token_transfer_checked(st, from, mint, to, authority, amount) ==
    IF st.tokens[from] < amount THEN Err("TokenInsufficientFunds", st)
    ELSE IF TokMint(from) # TokMint(to) THEN Err("TokenMintMismatch", st)
    ELSE IF mint # TokMint(from) THEN Err("TokenMintMismatch", st)
    ELSE IF authority # TokOwner(from) THEN Err("TokenOwnerMismatch", st)
    ELSE Ok([st EXCEPT !.tokens =
                [@ EXCEPT ![from] = @ - amount, ![to] = @ + amount]])

\* Processor::transfer_spl_token with no signer seeds: the authority must
\* have signed, then the token program moves the tokens.
transfer_spl_token(st, from, mint, to, authority, authority_signer, amount) ==
    IF ~authority_signer THEN Err("MissingRequiredSignature", st)
    ELSE spl_token_transfer_checked(st, from, mint, to, authority, amount)

\* The new account's data: Offer::MAX_LEN bytes.
allocate(st, key) ==
    [st EXCEPT !.space =
        [k \in DOMAIN @ \cup {key} |-> IF k = key THEN MAX_LEN ELSE @[k]]]

\* invoke_signed of system_instruction::create_account for an offer
\* account: the new account must have signed, then the payer funds it with
\* the rent-exempt minimum and it is given Offer::MAX_LEN bytes.
create_account(st, payer, key, seeds) ==
    IF signed_by_seeds(st, seeds, key) # "Ok"
    THEN Err(signed_by_seeds(st, seeds, key), st)
    ELSE IF st.lamports[payer] < RentLamports
    THEN Err("SystemInsufficientLamports", st)
    ELSE Ok([allocate(st, key) EXCEPT !.lamports =
                [k \in DOMAIN @ \cup {key} |->
                    IF k = key THEN RentLamports
                    ELSE IF k = payer THEN @[k] - RentLamports
                    ELSE @[k]]])

\* offer.serialize(&mut offer_account.data): the record held at an address.
serialize(st, key, offer) ==
    [st EXCEPT !.offers =
        [k \in DOMAIN @ \cup {key} |-> IF k = key THEN offer ELSE @[k]]]

---------------------------------------------------------------------------
(* CreateOffer *)

\* The maker's offered side is native currency.
OffersNative(offer_type, offer_token_mint) ==
    \/ offer_type = "PublicBuy"
    \/ (offer_type = "Direct" /\ offer_token_mint = SOL)

\* An address check that leaves the bump out.
pda_matches_key_only(pda, key, bump_seed) == pda.key = key

\* The caller's address and bump agree with the derivation.
pda_matches(pda, key, bump_seed) == pda.key = key /\ pda.bump = bump_seed

\* The taker check of process_create_offer: a Direct offer names its taker.
direct_taker_missing(offer_type, taker_account) ==
    offer_type = "Direct" /\ taker_account = None

\* The balance check of process_create_offer on the maker's token account.
insufficient_funds(offer_token_amount, amount) == offer_token_amount > amount

\* The offer account already holds data: process_create_offer does not
\* allocate it and refuses it, since an account with data is not empty.
offer_account_in_use(st, key) == data_len(st, key) # 0

\* An error returned after the handler has written (the allocation of
\* process_create_offer, the expiry write of process_accept_offer): the host
\* drops what the failing operation wrote and the ledger is as the operation
\* found it.
fail_after(e, st, written) == Err(e, st)

process_create_offer(st, r) ==
    LET pda == find_program_address(r.maker_account, r.offer_token_mint,
                                    r.receive_token_mint, r.bump_seed)
        offer_seeds == OfferSeeds(r.maker_account, r.offer_token_mint,
                                  r.receive_token_mint, r.bump_seed)
        alloc == create_account(st, r.maker_account, r.offer_account,
                                offer_seeds)
        escrowing == OffersNative(r.offer_type, r.offer_token_mint)
        paid == transfer_sol(alloc.st, r.maker_sol_account, r.offer_account,
                             r.offer_token_amount, NoSeeds)
        offer == [offer_type |-> r.offer_type,
                  status |-> "Active",
                  maker |-> r.maker_account,
                  taker |-> IF r.offer_type = "Direct"
                            THEN r.taker_account ELSE None,
                  offer_token_mint |-> r.offer_token_mint,
                  offer_token_amount |-> r.offer_token_amount,
                  receive_token_mint |-> r.receive_token_mint,
                  receive_token_amount |-> r.receive_token_amount,
                  escrow_sol_amount |-> IF escrowing
                                        THEN r.offer_token_amount ELSE 0,
                  expiration |-> r.expiration,
                  is_counter_offer |-> FALSE,
                  original_offer_id |-> None,
                  bump_seed |-> r.bump_seed]
    IN
    IF ~r.maker_signer THEN Err("MissingRequiredSignature", st)
    ELSE IF ~pda_matches(pda, r.offer_account, r.bump_seed)
    THEN Err("InvalidProgramAddress", st)
    ELSE IF offer_account_in_use(st, r.offer_account)
    THEN Err("InvalidAccountData", st)
    ELSE IF alloc.res # "Ok" THEN Err(alloc.res, st)
    ELSE IF ~IsTokenAccount(r.maker_token_account)
    THEN fail_after("UnpackError", st, alloc.st)
    ELSE IF TokOwner(r.maker_token_account) # r.maker_account
    THEN fail_after("IncorrectOwner", st, alloc.st)
    ELSE IF TokMint(r.maker_token_account) # r.offer_token_mint
    THEN fail_after("TokenMismatch", st, alloc.st)
    ELSE IF direct_taker_missing(r.offer_type, r.taker_account)
    THEN fail_after("MissingRequiredAccount", st, alloc.st)
    ELSE IF escrowing /\ r.maker_sol_account = None
    THEN fail_after("MissingRequiredAccount", st, alloc.st)
    ELSE IF escrowing /\ r.maker_sol_account # r.maker_account
    THEN fail_after("IncorrectOwner", st, alloc.st)
    ELSE IF escrowing /\ paid.res # "Ok"
    THEN fail_after(paid.res, st, alloc.st)
    ELSE IF ~escrowing
            /\ insufficient_funds(r.offer_token_amount,
                                  alloc.st.tokens[r.maker_token_account])
    THEN fail_after("InsufficientFunds", st, alloc.st)
    ELSE Ok(serialize(IF escrowing THEN paid.st ELSE alloc.st,
                      r.offer_account, offer))

---------------------------------------------------------------------------
(* AcceptOffer *)

\* The address a stored record derives to.
RecordKey(o) ==
    find_program_address(o.maker, o.offer_token_mint, o.receive_token_mint,
                         o.bump_seed).key

\* The signer seeds a handler builds from a stored record.
RecordSeeds(o) ==
    OfferSeeds(o.maker, o.offer_token_mint, o.receive_token_mint, o.bump_seed)

\* The status check of process_accept_offer.
accept_status_ok(o) == o.status = "Active"

\* The taker check of process_accept_offer: a Direct offer is for its stored
\* taker only.
accept_taker_ok(o, taker_account) ==
    ~(o.offer_type = "Direct" /\ o.taker # taker_account)

\* The expiry check of process_accept_offer: an expiration is set and the
\* clock's unix_timestamp is greater.
offer_expired(o, clock) == o.expiration # None /\ clock > o.expiration

\* The expiry write: the record is serialized as Expired into the account
\* before the error is returned.
expire(st, key, o) == serialize(st, key, [o EXCEPT !.status = "Expired"])

\* Case 1 of the swap: the escrowed lamports go to the maker's account and the
\* taker's tokens to the maker.
accept_sol_for_token(st, r, o) ==
    LET released == transfer_sol(st, r.offer_account, r.maker_sol_account,
                                 o.escrow_sol_amount, RecordSeeds(o))
        moved == transfer_spl_token(released.st, r.taker_token_account,
                                    r.receive_token_mint,
                                    r.maker_token_account, r.taker_account,
                                    r.taker_signer, o.receive_token_amount)
    IN
    IF TokMint(r.maker_token_account) # r.receive_token_mint
    THEN Err("TokenMismatch", st)
    ELSE IF TokMint(r.taker_token_account) # r.offer_token_mint
    THEN Err("TokenMismatch", st)
    ELSE IF r.maker_sol_account = None THEN Err("MissingRequiredAccount", st)
    ELSE IF r.maker_sol_account # r.maker_account
    THEN Err("IncorrectOwner", st)
    ELSE IF released.res # "Ok" THEN Err(released.res, st)
    ELSE IF ~IsMint(r.receive_token_mint) THEN Err("UnpackError", st)
    ELSE IF moved.res # "Ok" THEN Err(moved.res, st)
    ELSE Ok(moved.st)

\* Case 2 of the swap: the maker's tokens go to the taker and the taker's
\* lamports to the maker.
accept_token_for_sol(st, r, o) ==
    LET moved == transfer_spl_token(st, r.maker_token_account,
                                    r.offer_token_mint, r.taker_token_account,
                                    r.maker_account, r.maker_signer,
                                    o.offer_token_amount)
        paid == transfer_sol(moved.st, r.taker_sol_account,
                             r.maker_sol_account, o.receive_token_amount,
                             NoSeeds)
    IN
    IF TokMint(r.maker_token_account) # r.offer_token_mint
    THEN Err("TokenMismatch", st)
    ELSE IF TokMint(r.taker_token_account) # r.receive_token_mint
    THEN Err("TokenMismatch", st)
    ELSE IF ~IsMint(r.offer_token_mint) THEN Err("UnpackError", st)
    ELSE IF moved.res # "Ok" THEN Err(moved.res, st)
    ELSE IF r.taker_sol_account = None \/ r.maker_sol_account = None
    THEN Err("MissingRequiredAccount", st)
    ELSE IF r.taker_sol_account # r.taker_account
            \/ r.maker_sol_account # r.maker_account
    THEN Err("IncorrectOwner", st)
    ELSE IF paid.res # "Ok" THEN Err(paid.res, st)
    ELSE Ok(paid.st)

\* The final write of process_accept_offer: the record stored as Accepted.
mark_accepted(st, r, o) ==
    serialize(st, r.offer_account, [o EXCEPT !.status = "Accepted"])

process_accept_offer(st, r, clock) ==
    IF ~r.taker_signer THEN Err("MissingRequiredSignature", st)
    ELSE IF r.offer_account \notin DOMAIN st.offers
    THEN Err("IncorrectOwner", st)
    ELSE IF ~try_from_slice(st, r.offer_account)
    THEN Err("BorshIoError", st)
    ELSE
    LET o == st.offers[r.offer_account]
        swap == IF o.escrow_sol_amount > 0
                THEN accept_sol_for_token(st, r, o)
                ELSE accept_token_for_sol(st, r, o)
    IN
    IF RecordKey(o) # r.offer_account THEN Err("InvalidProgramAddress", st)
    ELSE IF ~accept_status_ok(o) THEN Err("InvalidOfferStatus", st)
    ELSE IF offer_expired(o, clock)
    THEN fail_after("OfferExpired", st, expire(st, r.offer_account, o))
    ELSE IF ~accept_taker_ok(o, r.taker_account)
    THEN Err("Unauthorized", st)
    ELSE IF o.maker # r.maker_account THEN Err("OfferMismatch", st)
    ELSE IF ~IsTokenAccount(r.maker_token_account)
            \/ ~IsTokenAccount(r.taker_token_account)
    THEN Err("UnpackError", st)
    ELSE IF TokOwner(r.maker_token_account) # r.maker_account
    THEN Err("IncorrectOwner", st)
    ELSE IF TokOwner(r.taker_token_account) # r.taker_account
    THEN Err("IncorrectOwner", st)
    ELSE IF swap.res # "Ok" THEN swap
    ELSE Ok(mark_accepted(swap.st, r, o))

---------------------------------------------------------------------------
(* CounterOffer *)

\* The status check of process_counter_offer.
counter_status_ok(o) == o.status = "Active"

\* The counter-maker is the original maker or the original taker.
counter_authorized(o, counter_maker) ==
    ~(counter_maker # o.maker /\ o.taker # counter_maker)

\* The refund of the original offer's escrow and the cleared field.
counter_refund(st, r, o) ==
    LET refunded == transfer_sol(st, r.original_offer_account,
                                 r.original_maker_sol_account,
                                 o.escrow_sol_amount, RecordSeeds(o))
    IN
    IF o.escrow_sol_amount > 0
    THEN IF r.original_maker_sol_account = None
         THEN Err("MissingRequiredAccount", st)
         ELSE IF r.original_maker_sol_account # o.maker
         THEN Err("IncorrectOwner", st)
         ELSE IF refunded.res # "Ok" THEN Err(refunded.res, st)
         ELSE [res |-> "Ok", st |-> refunded.st,
               o |-> [o EXCEPT !.escrow_sol_amount = 0]]
    ELSE [res |-> "Ok", st |-> st, o |-> o]

\* The escrow of the new offer, or the check of the counter-maker's tokens.
counter_escrow(st, r) ==
    IF r.offer_token_mint = SOL
    THEN IF r.counter_maker_sol_account = None
         THEN Err("MissingRequiredAccount", st)
         ELSE IF r.counter_maker_sol_account # r.counter_maker_account
         THEN Err("IncorrectOwner", st)
         ELSE transfer_sol(st, r.counter_maker_sol_account,
                           r.new_offer_account, r.offer_token_amount,
                           NoSeeds)
    ELSE IF ~IsTokenAccount(r.counter_maker_token_account)
         THEN Err("UnpackError", st)
         ELSE IF r.offer_token_amount
                    > st.tokens[r.counter_maker_token_account]
         THEN Err("InsufficientFunds", st)
         ELSE IF TokMint(r.counter_maker_token_account) # r.offer_token_mint
         THEN Err("TokenMismatch", st)
         ELSE Ok(st)

\* The taker of the new record: the maker who counters keeps the taker, the
\* taker who counters names the original maker.
counter_taker(o, counter_maker) ==
    IF o.maker = counter_maker THEN o.taker ELSE o.maker

\* The record of the counter-offer.
new_counter_offer(o, r) ==
    [offer_type |-> o.offer_type,
     status |-> "Active",
     maker |-> r.counter_maker_account,
     taker |-> counter_taker(o, r.counter_maker_account),
     offer_token_mint |-> r.offer_token_mint,
     offer_token_amount |-> r.offer_token_amount,
     receive_token_mint |-> r.receive_token_mint,
     receive_token_amount |-> r.receive_token_amount,
     escrow_sol_amount |-> IF r.offer_token_mint = SOL
                           THEN r.offer_token_amount ELSE 0,
     expiration |-> r.expiration,
     is_counter_offer |-> TRUE,
     original_offer_id |-> r.original_offer_account,
     bump_seed |-> r.bump_seed]

\* The original record stored with status Countered.
mark_countered(st, key, o) ==
    serialize(st, key, [o EXCEPT !.status = "Countered"])

\* The new offer account already holds data: process_counter_offer does not
\* allocate it and refuses it, since an account with data is not empty.
new_offer_account_in_use(st, key) == data_len(st, key) # 0

process_counter_offer(st, r) ==
    IF ~r.counter_maker_signer THEN Err("MissingRequiredSignature", st)
    ELSE IF r.original_offer_account \notin DOMAIN st.offers
    THEN Err("IncorrectOwner", st)
    ELSE IF ~try_from_slice(st, r.original_offer_account)
    THEN Err("BorshIoError", st)
    ELSE
    LET o == st.offers[r.original_offer_account]
        refund == counter_refund(st, r, o)
        pda == find_program_address(r.counter_maker_account,
                                    r.offer_token_mint, r.receive_token_mint,
                                    r.bump_seed)
        alloc == create_account(refund.st, r.counter_maker_account,
                                r.new_offer_account,
                                OfferSeeds(r.counter_maker_account,
                                           r.offer_token_mint,
                                           r.receive_token_mint,
                                           r.bump_seed))
        escrow == counter_escrow(alloc.st, r)
        counter_offer == new_counter_offer(o, r)
    IN
    IF RecordKey(o) # r.original_offer_account
    THEN Err("InvalidProgramAddress", st)
    ELSE IF ~counter_authorized(o, r.counter_maker_account)
    THEN Err("Unauthorized", st)
    ELSE IF ~counter_status_ok(o) THEN Err("InvalidOfferStatus", st)
    ELSE IF refund.res # "Ok" THEN Err(refund.res, st)
    ELSE IF ~pda_matches(pda, r.new_offer_account, r.bump_seed)
    THEN Err("InvalidProgramAddress", st)
    ELSE IF new_offer_account_in_use(st, r.new_offer_account)
    THEN Err("InvalidAccountData", st)
    ELSE IF alloc.res # "Ok" THEN Err(alloc.res, st)
    ELSE IF escrow.res # "Ok" THEN Err(escrow.res, st)
    ELSE Ok(mark_countered(
                serialize(escrow.st, r.new_offer_account, counter_offer),
                r.original_offer_account, refund.o))

---------------------------------------------------------------------------
(* CancelOffer *)

\* The status check of process_cancel_offer.
cancel_status_ok(o) == o.status = "Active"

\* The caller check of process_cancel_offer: only the stored maker cancels.
cancel_caller_ok(o, caller) == o.maker = caller

\* The refund of the escrow to the maker and the cleared field.
cancel_refund(st, r, o) ==
    LET refunded == transfer_sol(st, r.offer_account, r.maker_sol_account,
                                 o.escrow_sol_amount, RecordSeeds(o))
    IN
    IF o.escrow_sol_amount > 0
    THEN IF r.maker_sol_account = None THEN Err("MissingRequiredAccount", st)
         ELSE IF r.maker_sol_account # r.offer_maker_account
         THEN Err("IncorrectOwner", st)
         ELSE IF refunded.res # "Ok" THEN Err(refunded.res, st)
         ELSE [res |-> "Ok", st |-> refunded.st,
               o |-> [o EXCEPT !.escrow_sol_amount = 0]]
    ELSE [res |-> "Ok", st |-> st, o |-> o]

process_cancel_offer(st, r) ==
    IF ~r.offer_maker_signer THEN Err("MissingRequiredSignature", st)
    ELSE IF r.offer_account \notin DOMAIN st.offers
    THEN Err("IncorrectOwner", st)
    ELSE IF ~try_from_slice(st, r.offer_account)
    THEN Err("BorshIoError", st)
    ELSE
    LET o == st.offers[r.offer_account]
        refund == cancel_refund(st, r, o)
    IN
    IF RecordKey(o) # r.offer_account THEN Err("InvalidProgramAddress", st)
    ELSE IF ~cancel_caller_ok(o, r.offer_maker_account)
    THEN Err("Unauthorized", st)
    ELSE IF ~cancel_status_ok(o) THEN Err("InvalidOfferStatus", st)
    ELSE IF refund.res # "Ok" THEN Err(refund.res, st)
    ELSE Ok(serialize(refund.st, r.offer_account,
                      [refund.o EXCEPT !.status = "Declined"]))

---------------------------------------------------------------------------
(* Requests.  Each family holds the well-formed requests and the requests  *)
(* that differ from one of them in one account or one flag.                *)

Makers == {1, 2}
OfferAmounts == {2, 3}
ReceiveAmounts == {1}
Expirations == {None, 1}
\* The (offer mint, receive mint) pairs requests name.
MintPairs == {<<11, SOL>>, <<11, 12>>, <<12, 11>>, <<SOL, 11>>}

OtherSalt(s) == IF s = 255 THEN 254 ELSE 255
OtherMint(m) == IF m = 11 THEN 12 ELSE 11
NextParty(p) == (p % 3) + 1
\* A token account of party p for mint m, of mint 11 when m is no token mint.
HoldingOf(p, m) == TokAcct(p, IF m \in TokenMints THEN m ELSE 11)
\* An address no record is stored at.
VacantKey == PdaKey(3, SOL, SOL, 255, 255)

CreateGood ==
    {[maker_account |-> m, maker_signer |-> TRUE,
      offer_account |-> find_program_address(m, pr[1], pr[2], b).key,
      maker_token_account |-> HoldingOf(m, pr[1]),
      offer_token_mint |-> pr[1], receive_token_mint |-> pr[2],
      maker_sol_account |-> m,
      taker_account |-> IF ty = "Direct" THEN NextParty(m) ELSE None,
      offer_type |-> ty, offer_token_amount |-> oa,
      receive_token_amount |-> ra, expiration |-> e, bump_seed |-> b] :
        m \in Makers, pr \in MintPairs, b \in Salts, ty \in OfferTypes,
        oa \in OfferAmounts, ra \in ReceiveAmounts, e \in Expirations}

CreateFaults(r) ==
    {[r EXCEPT !.maker_signer = FALSE],
     [r EXCEPT !.offer_account =
          find_program_address(r.maker_account, r.offer_token_mint,
                               r.receive_token_mint,
                               OtherSalt(r.bump_seed)).key],
     [r EXCEPT !.bump_seed = OtherSalt(r.bump_seed)],
     [r EXCEPT !.maker_token_account =
          HoldingOf(NextParty(r.maker_account), r.offer_token_mint)],
     [r EXCEPT !.maker_token_account =
          TokAcct(r.maker_account, OtherMint(TokMint(r.maker_token_account)))],
     [r EXCEPT !.maker_token_account = r.maker_account],
     [r EXCEPT !.maker_sol_account = None, !.taker_account = None],
     [r EXCEPT !.maker_sol_account = NextParty(r.maker_account)],
     [r EXCEPT !.taker_account = None]}

CreateReqs == CreateGood \cup UNION {CreateFaults(g) : g \in CreateGood}

\* The mint accounts an accept names: the record's own, or one token mint
\* for both sides.
AcceptMints(o) ==
    {<<o.offer_token_mint, o.receive_token_mint>>}
        \cup {<<x, x>> : x \in TokenMints}

\* The offer accounts a request may name: those that hold a record, and
\* one that holds none.
OfferAccounts(st) == DOMAIN st.offers \cup {VacantKey}

\* The makers a request on the account at a may name: the maker of the
\* record there, or any maker where there is no record.
MakersAt(st, a) ==
    IF a \in DOMAIN st.offers THEN {st.offers[a].maker} ELSE Makers

\* The mint accounts a request on the account at a may name.
MintsAt(st, a) ==
    IF a \in DOMAIN st.offers THEN AcceptMints(st.offers[a]) ELSE MintPairs

AcceptGood(st) ==
    UNION {
      {[taker_account |-> t, taker_signer |-> TRUE, offer_account |-> a,
        maker_account |-> m,
        maker_signer |-> (ms \/ t = m),
        maker_token_account |-> TokAcct(m, mm),
        taker_token_account |-> TokAcct(t, tm),
        offer_token_mint |-> mints[1], receive_token_mint |-> mints[2],
        maker_sol_account |-> m, taker_sol_account |-> t] :
          t \in Parties, ms \in BOOLEAN, mm \in TokenMints,
          tm \in TokenMints, mints \in MintsAt(st, a),
          m \in MakersAt(st, a)} :
      a \in OfferAccounts(st)}

AcceptFaults(r) ==
    {[r EXCEPT !.taker_signer = FALSE],
     [r EXCEPT !.offer_account = VacantKey],
     [r EXCEPT !.maker_account = NextParty(r.maker_account)],
     [r EXCEPT !.maker_token_account =
          TokAcct(NextParty(r.maker_account), TokMint(r.maker_token_account))],
     [r EXCEPT !.taker_token_account =
          TokAcct(NextParty(r.taker_account), TokMint(r.taker_token_account))],
     [r EXCEPT !.maker_token_account = r.maker_account],
     [r EXCEPT !.maker_sol_account = None, !.taker_sol_account = None],
     [r EXCEPT !.taker_sol_account = None],
     [r EXCEPT !.maker_sol_account = NextParty(r.maker_account)],
     [r EXCEPT !.taker_sol_account = NextParty(r.taker_account)]}

AcceptReqs(st) ==
    AcceptGood(st) \cup UNION {AcceptFaults(g) : g \in AcceptGood(st)}

CounterGood(st) ==
    UNION {
      {[counter_maker_account |-> c, counter_maker_signer |-> TRUE,
        original_offer_account |-> a,
        new_offer_account |-> find_program_address(c, pr[1], pr[2], b).key,
        counter_maker_token_account |-> HoldingOf(c, pr[1]),
        offer_token_mint |-> pr[1], receive_token_mint |-> pr[2],
        counter_maker_sol_account |-> c,
        original_maker_sol_account |-> m,
        offer_token_amount |-> oa, receive_token_amount |-> ra,
        expiration |-> e, bump_seed |-> b] :
          c \in Parties, pr \in MintPairs, b \in Salts,
          oa \in OfferAmounts, ra \in ReceiveAmounts, e \in Expirations,
          m \in MakersAt(st, a)} :
      a \in OfferAccounts(st)}

CounterFaults(r) ==
    {[r EXCEPT !.counter_maker_signer = FALSE],
     [r EXCEPT !.original_offer_account = VacantKey],
     [r EXCEPT !.new_offer_account =
          find_program_address(r.counter_maker_account, r.offer_token_mint,
                               r.receive_token_mint,
                               OtherSalt(r.bump_seed)).key],
     [r EXCEPT !.new_offer_account = r.original_offer_account],
     [r EXCEPT !.bump_seed = OtherSalt(r.bump_seed)],
     [r EXCEPT !.counter_maker_token_account =
          HoldingOf(NextParty(r.counter_maker_account), r.offer_token_mint)],
     [r EXCEPT !.counter_maker_token_account =
          TokAcct(r.counter_maker_account,
                  OtherMint(TokMint(r.counter_maker_token_account)))],
     [r EXCEPT !.counter_maker_token_account = r.counter_maker_account],
     [r EXCEPT !.counter_maker_sol_account = None,
               !.original_maker_sol_account = None],
     [r EXCEPT !.original_maker_sol_account = None],
     [r EXCEPT !.counter_maker_sol_account =
          NextParty(r.counter_maker_account)],
     [r EXCEPT !.original_maker_sol_account =
          NextParty(r.original_maker_sol_account)]}

CounterReqs(st) ==
    CounterGood(st) \cup UNION {CounterFaults(g) : g \in CounterGood(st)}

CancelReqs(st) ==
    {[offer_maker_account |-> m, offer_maker_signer |-> sg,
      offer_account |-> a, maker_sol_account |-> ms] :
        m \in Parties, sg \in BOOLEAN,
        a \in OfferAccounts(st),
        ms \in {None} \cup Parties}

---------------------------------------------------------------------------
(* The ledger and the operations on it. *)

Ledger ==
    [offers |-> offers, lamports |-> lamports, tokens |-> tokens,
     space |-> space]

InitLamports == [p \in Parties |-> CASE p = 1 -> 6 [] p = 2 -> 4 [] OTHER -> 0]
InitTokens ==
    [t \in TokenAccts |->
        CASE TokOwner(t) = 3 -> 1
          [] t = TokAcct(2, 12) -> 0
          [] OTHER -> 2]

Init ==
    /\ offers = << >>
    /\ lamports = InitLamports
    /\ tokens = InitTokens
    /\ space = << >>
    /\ now = 0
    /\ last = [op |-> "Init", res |-> "Ok", offer |-> None, by |-> None,
               new |-> None]

\* What an operation leaves: the ledger it hands back, which for a failed
\* operation is the ledger it found, and its answer as the last answer
\* given.  The answer names the operation, its result, the offer account
\* acted on, the party acting and, for a counter, the new offer account.
Leave(out, op, key, who, new) ==
    /\ offers' = out.st.offers
    /\ lamports' = out.st.lamports
    /\ tokens' = out.st.tokens
    /\ space' = out.st.space
    /\ last' = [op |-> op, res |-> out.res, offer |-> key, by |-> who,
                new |-> new]
    /\ UNCHANGED now

\* Records made by CreateOffer.
Created(st) == {a \in DOMAIN st.offers : ~st.offers[a].is_counter_offer}

CreateOffer ==
    \E r \in CreateReqs :
        LET out == process_create_offer(Ledger, r) IN
        /\ out.res = "Ok" =>
               /\ Cardinality(Created(out.st)) <= MaxCreates
               /\ Cardinality(DOMAIN out.st.offers) <= MaxOffers
        /\ Leave(out, "Create", r.offer_account, r.maker_account, None)

AcceptOffer ==
    \E r \in AcceptReqs(Ledger) :
        Leave(process_accept_offer(Ledger, r, now), "Accept",
              r.offer_account, r.taker_account, None)

CounterOffer ==
    \E r \in CounterReqs(Ledger) :
        LET out == process_counter_offer(Ledger, r) IN
        /\ out.res = "Ok" => Cardinality(DOMAIN out.st.offers) <= MaxOffers
        /\ Leave(out, "Counter", r.original_offer_account,
                 r.counter_maker_account, r.new_offer_account)

CancelOffer ==
    \E r \in CancelReqs(Ledger) :
        Leave(process_cancel_offer(Ledger, r), "Cancel",
              r.offer_account, r.offer_maker_account, None)

\* Clock::get()?.unix_timestamp advances between operations.
Tick ==
    /\ now < MaxTime
    /\ now' = now + 1
    /\ UNCHANGED <<offers, lamports, tokens, space, last>>

Next == CreateOffer \/ AcceptOffer \/ CounterOffer \/ CancelOffer \/ Tick

Spec == Init /\ [][Next]_vars

---------------------------------------------------------------------------
(* Properties. *)

\* C10 (address integrity on Create): a signed Create stores a record only if
\* the offer account it names is the address derived from the maker, the two
\* mints and the supplied bump, and the supplied bump is the canonical bump
\* of that derivation; with any other address or any other bump it returns
\* InvalidProgramAddress and creates nothing.
CreateAddressIntegrity ==
    \A r \in CreateReqs :
        LET out == process_create_offer(Ledger, r)
            pda == find_program_address(r.maker_account, r.offer_token_mint,
                                        r.receive_token_mint, r.bump_seed)
            derived == r.offer_account = pda.key /\ r.bump_seed = pda.bump
        IN
        /\ out.res = "Ok" =>
               /\ derived
               /\ DOMAIN out.st.offers = DOMAIN offers \cup {pda.key}
               /\ out.st.offers[pda.key].bump_seed = pda.bump
        /\ (r.maker_signer /\ ~derived) =>
               /\ out.res = "InvalidProgramAddress"
               /\ out.st = Ledger

\* The last operation was a signed Create that named the address derived
\* with a bump other than the canonical one, and it was answered
\* InvalidProgramAddress and stored nothing; the Create of the same maker
\* and mints that names the canonical bump and the address of some other
\* derivation is refused in the same way.
RefusedOffDerivedAddress ==
    /\ last.op = "Create" /\ last.res = "InvalidProgramAddress"
    /\ last.offer \notin DOMAIN offers
    /\ \E r \in CreateReqs :
          LET pda == find_program_address(r.maker_account, r.offer_token_mint,
                                          r.receive_token_mint, r.bump_seed)
          IN
          /\ r.maker_signer
          /\ r.maker_account = last.by /\ r.offer_account = last.offer
          /\ r.offer_account = pda.key /\ r.bump_seed # pda.bump
          /\ process_create_offer(Ledger, r).res = "InvalidProgramAddress"
          /\ \E q \in CreateReqs :
                LET qda == find_program_address(
                               q.maker_account, q.offer_token_mint,
                               q.receive_token_mint, q.bump_seed)
                IN
                /\ q.maker_signer /\ q.maker_account = r.maker_account
                /\ q.offer_token_mint = r.offer_token_mint
                /\ q.receive_token_mint = r.receive_token_mint
                /\ q.bump_seed = qda.bump /\ q.offer_account # qda.key
                /\ process_create_offer(Ledger, q).res
                       = "InvalidProgramAddress"

\* The offered side of an offer of this kind and mint is native currency.
NativeOffered(offer_type, offer_token_mint) ==
    offer_type = "PublicBuy"
        \/ (offer_type = "Direct" /\ offer_token_mint = SOL)

\* The well-formed Create requests of every party, not of the makers alone.
CreateByAnyone ==
    {[maker_account |-> m, maker_signer |-> TRUE,
      offer_account |-> find_program_address(m, pr[1], pr[2], b).key,
      maker_token_account |-> HoldingOf(m, pr[1]),
      offer_token_mint |-> pr[1], receive_token_mint |-> pr[2],
      maker_sol_account |-> m,
      taker_account |-> IF ty = "Direct" THEN NextParty(m) ELSE None,
      offer_type |-> ty, offer_token_amount |-> oa,
      receive_token_amount |-> ra, expiration |-> e, bump_seed |-> b] :
        m \in Parties, pr \in MintPairs, b \in Salts, ty \in OfferTypes,
        oa \in OfferAmounts, ra \in ReceiveAmounts, e \in Expirations}

\* The Create request g with k in the place of the maker's token account.
WithTokenAccount(g, k) == [g EXCEPT !.maker_token_account = k]

\* The accounts a maker who offers lamports may name where the token account
\* goes: an account that is no token account, or a token account of any
\* owner and mint.
Placeholders == Parties \cup TokenAccts

\* C22 (a native offer needs no token account): a Create whose offered side
\* is native currency (PublicBuy, or Direct of the SOL sentinel), signed by
\* the maker, at the vacant derived address, by a maker who has the rent and
\* offer_token_amount lamports, succeeds whatever account is named as the
\* maker's token account: the owner, mint and balance checks on that account
\* apply only when the offered side is a token.
NativeCreateNeedsNoTokenAccount ==
    \A g \in CreateByAnyone :
        (/\ NativeOffered(g.offer_type, g.offer_token_mint)
         /\ g.offer_account \notin DOMAIN offers
         /\ g.bump_seed =
                find_program_address(g.maker_account, g.offer_token_mint,
                                     g.receive_token_mint, g.bump_seed).bump
         /\ lamports[g.maker_account]
                >= RentLamports + g.offer_token_amount) =>
            \A k \in Placeholders :
                process_create_offer(Ledger, WithTokenAccount(g, k)).res
                    = "Ok"

\* The Create request r is well formed: signed by its maker, at the vacant
\* address derived under the canonical bump, with the maker's own token
\* account of the offered token mint and the maker's own native account.
CreateInOrder(r) ==
    /\ r.maker_signer
    /\ r.offer_token_mint \in TokenMints
    /\ r.offer_account \notin DOMAIN offers
    /\ pda_matches(find_program_address(r.maker_account, r.offer_token_mint,
                                        r.receive_token_mint, r.bump_seed),
                   r.offer_account, r.bump_seed)
    /\ r.maker_token_account = TokAcct(r.maker_account, r.offer_token_mint)
    /\ r.maker_sol_account = r.maker_account
    /\ lamports[r.maker_account] >= RentLamports

\* C23 (Create refuses an offer of tokens the maker does not hold): a
\* well-formed Create of a token-offering offer whose maker's token account
\* holds less than offer_token_amount of offer_token_mint returns
\* InsufficientFunds, and no record exists at the offer address afterwards.
CreateRefusesShortMaker ==
    \A r \in CreateReqs :
        (/\ CreateInOrder(r)
         /\ ~NativeOffered(r.offer_type, r.offer_token_mint)
         /\ r.offer_type = "Direct" => r.taker_account # None
         /\ tokens[r.maker_token_account] < r.offer_token_amount) =>
            LET out == process_create_offer(Ledger, r) IN
            /\ out.res = "InsufficientFunds"
            /\ r.offer_account \notin DOMAIN out.st.offers

\* C24 (a Direct offer names its taker): a well-formed Create with
\* offer_type Direct and no taker account supplied returns
\* MissingRequiredAccount and persists no record.
DirectCreateNeedsTaker ==
    \A r \in CreateReqs :
        (/\ CreateInOrder(r)
         /\ r.offer_type = "Direct"
         /\ r.taker_account = None) =>
            LET out == process_create_offer(Ledger, r) IN
            /\ out.res = "MissingRequiredAccount"
            /\ r.offer_account \notin DOMAIN out.st.offers

\* The well-formed Create requests the ledger can pay for: they name a
\* taker when Direct, and the maker has the rent and, of what is offered,
\* the lamports to escrow or the tokens to show.
FundedCreates ==
    {g \in CreateGood :
        /\ CreateInOrder(g)
        /\ g.offer_type = "Direct" => g.taker_account # None
        /\ IF NativeOffered(g.offer_type, g.offer_token_mint)
           THEN lamports[g.maker_account]
                    >= RentLamports + g.offer_token_amount
           ELSE tokens[g.maker_token_account] >= g.offer_token_amount}

\* The record n is the one Create writes for the request r: Active, the
\* signer's own, with the requested kind, mints, amounts and expiration, not
\* a counter-offer, and with the supplied bump seed.
CreatesRecord(n, r) ==
    /\ n.status = "Active"
    /\ n.maker = r.maker_account
    /\ n.offer_type = r.offer_type
    /\ n.offer_token_mint = r.offer_token_mint
    /\ n.offer_token_amount = r.offer_token_amount
    /\ n.receive_token_mint = r.receive_token_mint
    /\ n.receive_token_amount = r.receive_token_amount
    /\ n.expiration = r.expiration
    /\ ~n.is_counter_offer
    /\ n.original_offer_id = None
    /\ n.bump_seed = r.bump_seed

\* C20 (the record of a new offer): a well-formed Create that the maker can
\* pay for succeeds and persists at the offer address a record with status
\* Active, maker = the signer, the requested kind, mints, amounts and
\* expiration, is_counter_offer = false, original_offer_id absent and
\* bump_seed = the supplied one; when the offered side is a token
\* escrow_sol_amount = 0 and no tokens of any party are moved.
CreatePersistsRecord ==
    \A g \in FundedCreates :
        LET out == process_create_offer(Ledger, g) IN
        /\ out.res = "Ok"
        /\ g.offer_account \in DOMAIN out.st.offers
        /\ CreatesRecord(out.st.offers[g.offer_account], g)
        /\ ~NativeOffered(g.offer_type, g.offer_token_mint) =>
               /\ out.st.offers[g.offer_account].escrow_sol_amount = 0
               /\ out.st.tokens = tokens

\* The Create of the record n at a by the party m has escrowed what a native
\* offer offers: the amount is in the offer account on top of its rent, has
\* left the maker with the rent, and is what the record names; an offer of
\* tokens names no escrow.
CreateEscrowed(before, after, a, m) ==
    LET n == after.offers[a] IN
    IF NativeOffered(n.offer_type, n.offer_token_mint)
    THEN /\ n.escrow_sol_amount = n.offer_token_amount
         /\ after.lamports[a] = RentLamports + n.offer_token_amount
         /\ after.lamports[m] =
                before.lamports[m] - RentLamports - n.offer_token_amount
         /\ \A p \in Parties \ {m} : after.lamports[p] = before.lamports[p]
    ELSE n.escrow_sol_amount = 0

\* C21 (Create escrows a native offer): a well-formed Create that the maker
\* can pay for succeeds, and when the offered side is native currency
\* (offer_type PublicBuy, or Direct with the SOL sentinel as
\* offer_token_mint) it moves exactly offer_token_amount lamports from the
\* maker into the offer account and records escrow_sol_amount =
\* offer_token_amount; in every other case it records escrow_sol_amount = 0.
CreateEscrowsNativeOffer ==
    \A g \in FundedCreates :
        LET out == process_create_offer(Ledger, g) IN
        /\ out.res = "Ok"
        /\ g.offer_account \in DOMAIN out.st.offers
        /\ out.st.offers[g.offer_account].offer_type = g.offer_type
        /\ out.st.offers[g.offer_account].offer_token_mint
               = g.offer_token_mint
        /\ CreateEscrowed(Ledger, out.st, g.offer_account, g.maker_account)

\* The signed accept requests on the ledger st that name the account at a.
SignedAccepts(st, a) ==
    {r \in AcceptReqs(st) : r.offer_account = a /\ r.taker_signer}

\* C7 (expiry monotonicity): once the expiration a new offer was created
\* with has passed, every signed Accept on the offer returns OfferExpired
\* and leaves the record stored with status Expired, and every signed Accept
\* on that offer from then on returns InvalidOfferStatus, never OfferExpired
\* again.
ExpiryMonotone ==
    \A g \in FundedCreates :
        (g.expiration # None /\ now > g.expiration) =>
            LET c == process_create_offer(Ledger, g) IN
            /\ c.res = "Ok"
            /\ \A r \in SignedAccepts(c.st, g.offer_account) :
                   LET out == process_accept_offer(c.st, r, now) IN
                   /\ out.res = "OfferExpired"
                   /\ out.st.offers[g.offer_account].status = "Expired"
                   /\ \A q \in SignedAccepts(out.st, g.offer_account) :
                          process_accept_offer(out.st, q, now).res
                              = "InvalidOfferStatus"

\* The maker's signed Cancel requests on the record at a of the ledger st
\* that name the maker's own account for the refund.
MakerCancels(st, a) ==
    {r \in CancelReqs(st) :
        /\ r.offer_account = a /\ r.offer_maker_signer
        /\ r.offer_maker_account = st.offers[a].maker
        /\ r.maker_sol_account = st.offers[a].maker}

\* The ledger out of a Cancel of the record o at a: the record is Declined
\* with no escrow named and is otherwise as it was, the maker has the
\* escrowed lamports back, the offer account is down to its rent, and
\* nothing else has moved.
CancelRefunds(before, after, a) ==
    LET o == before.offers[a] IN
    /\ after.offers =
           [before.offers EXCEPT
               ![a] = [o EXCEPT !.status = "Declined",
                                !.escrow_sol_amount = 0]]
    /\ after.lamports[o.maker] =
           before.lamports[o.maker] + o.escrow_sol_amount
    /\ after.lamports[a] = RentLamports
    /\ \A k \in DOMAIN before.lamports \ {a, o.maker} :
           after.lamports[k] = before.lamports[k]
    /\ after.tokens = before.tokens

\* C14 (cancel refunds the maker): a Cancel by the maker on the Active offer
\* that a well-formed, paid-for Create has made succeeds, and afterwards the
\* record has status Declined and escrow_sol_amount = 0, the maker's
\* lamports have increased by exactly the amount that was escrowed, and the
\* offer account holds only the rent it was funded with.
CancelRefundsMaker ==
    \A g \in FundedCreates :
        LET c == process_create_offer(Ledger, g) IN
        /\ c.res = "Ok"
        /\ \A r \in MakerCancels(c.st, g.offer_account) :
               LET out == process_cancel_offer(c.st, r) IN
               /\ out.res = "Ok"
               /\ CancelRefunds(c.st, out.st, g.offer_account)

\* The Accept requests on the record at a of the ledger st as the record
\* describes the trade: signed by the acceptor and by the maker, the maker's
\* and the acceptor's token accounts of offer_token_mint, the record's two
\* mints, and each party's own account for the lamports.
AcceptsAsRecorded(st, a) ==
    {r \in AcceptGood(st) :
        /\ r.offer_account = a
        /\ r.maker_signer
        /\ r.maker_token_account
               = TokAcct(st.offers[a].maker, st.offers[a].offer_token_mint)
        /\ r.taker_token_account
               = TokAcct(r.taker_account, st.offers[a].offer_token_mint)
        /\ r.offer_token_mint = st.offers[a].offer_token_mint
        /\ r.receive_token_mint = st.offers[a].receive_token_mint}

\* The acceptor of r is one the record at a of the ledger st admits, and
\* both parties hold what they are to give.
CanSettle(st, a, r) ==
    /\ r.taker_account # st.offers[a].maker
    /\ st.offers[a].offer_type = "Direct" =>
           r.taker_account = st.offers[a].taker
    /\ st.tokens[r.maker_token_account] >= st.offers[a].offer_token_amount
    /\ st.lamports[r.taker_account] >= st.offers[a].receive_token_amount

\* C25 (Accept of an offer of tokens for lamports): an Accept of the Active,
\* unexpired offer of tokens for lamports that a well-formed, paid-for
\* Create has made (escrow_sol_amount = 0), where the acceptor supplies a
\* token account of offer_token_mint to receive the tokens and both parties'
\* accounts for the lamports, succeeds: the maker's tokens decrease and the
\* acceptor's increase by offer_token_amount, the acceptor's lamports
\* decrease and the maker's increase by receive_token_amount, and the record
\* becomes Accepted.
AcceptTokensForNative ==
    \A g \in FundedCreates :
        (/\ ~NativeOffered(g.offer_type, g.offer_token_mint)
         /\ g.receive_token_mint = SOL
         /\ g.expiration # None => now <= g.expiration) =>
            LET c == process_create_offer(Ledger, g)
                a == g.offer_account
            IN
            /\ c.res = "Ok"
            /\ \A r \in AcceptsAsRecorded(c.st, a) :
                   CanSettle(c.st, a, r) =>
                       LET out == process_accept_offer(c.st, r, now)
                           o == c.st.offers[a]
                       IN
                       /\ out.res = "Ok"
                       /\ out.st.tokens[r.maker_token_account] =
                              c.st.tokens[r.maker_token_account]
                                  - o.offer_token_amount
                       /\ out.st.tokens[r.taker_token_account] =
                              c.st.tokens[r.taker_token_account]
                                  + o.offer_token_amount
                       /\ out.st.lamports[r.taker_account] =
                              c.st.lamports[r.taker_account]
                                  - o.receive_token_amount
                       /\ out.st.lamports[o.maker] =
                              c.st.lamports[o.maker] + o.receive_token_amount
                       /\ out.st.offers[a].status = "Accepted"

\* The signed Counter requests on the record at a of the ledger st by a
\* party other than its maker that are in order: tokens offered that the
\* party holds, the rent in hand, and the vacant address derived for the
\* party with its canonical bump.
StrangerCounters(st, a) ==
    {r \in CounterGood(st) :
        /\ r.original_offer_account = a
        /\ r.counter_maker_account # st.offers[a].maker
        /\ r.offer_token_mint \in TokenMints
        /\ st.tokens[r.counter_maker_token_account] >= r.offer_token_amount
        /\ st.lamports[r.counter_maker_account] >= RentLamports
        /\ r.new_offer_account \notin DOMAIN st.offers
        /\ r.bump_seed =
               find_program_address(r.counter_maker_account,
                                    r.offer_token_mint, r.receive_token_mint,
                                    r.bump_seed).bump}

\* C30 (a public offer is open to counter-offers): a Counter on the Active
\* PublicSell offer that a well-formed, paid-for Create has made, which
\* stores no taker, signed by a party who is not the maker succeeds, leaving
\* the original Countered and creating a new Active record whose maker is
\* the countering party.
PublicOfferCounteredByAnyone ==
    \A g \in FundedCreates :
        g.offer_type = "PublicSell" =>
            LET c == process_create_offer(Ledger, g)
                a == g.offer_account
            IN
            /\ c.res = "Ok"
            /\ \A r \in StrangerCounters(c.st, a) :
                   LET out == process_counter_offer(c.st, r) IN
                   /\ out.res = "Ok"
                   /\ out.st.offers[a].status = "Countered"
                   /\ r.new_offer_account \in DOMAIN out.st.offers
                   /\ out.st.offers[r.new_offer_account].status = "Active"
                   /\ out.st.offers[r.new_offer_account].maker
                          = r.counter_maker_account

=============================================================================
